---- MODULE Spec2Model ----
(***************************************************************************)
(* Model of retireve_acl_papers.py: the Stemmer (stem_text, stem_keywords) *)
(* and the PaperSelector (search_regex, filter_papers).                    *)
(*                                                                         *)
(* A Python str is a sequence of one-character strings.  The corpus texts  *)
(* are over the letters a, b, s (either case) and the blank; on that       *)
(* alphabet the Porter stemmer is exactly: lowercase, keep words of at     *)
(* most two letters, keep a final "ss", drop a final "s" (step 1a); no     *)
(* suffix of the later steps can be spelled with these letters.  A regex   *)
(* pattern is over the same letters, the blank and the wildcard ".".       *)
(***************************************************************************)
EXTENDS Integers, Sequences, FiniteSets, TLC

VARIABLES
    papers,           \* anthology.papers: the corpus, in iteration order
    selected_papers,  \* self.selected_papers: entries in insertion order
    grouped_stems,    \* the argument of the running filter_papers call
    idx,              \* position of the for loop in papers.items()
    pc,               \* "idle" | "loop" | "matched" | "error"
    error,            \* the exception that ended the run, or "none"
    match_result,     \* idx -> value of the if condition (lines 98-101), this call
    year_reads,       \* positions whose year was read and converted, this call
    calls,            \* the grouped_stems of every call made on the selector
    calls_left,       \* calls the driver will still make
    keywords,         \* the argument of stem_keywords
    kw_result,        \* what stem_keywords returned, or NoneVal
    kw_pc             \* "start" | "returned" | "raised"

vars == <<papers, selected_papers, grouped_stems, idx, pc, error, match_result,
          year_reads, calls, calls_left, keywords, kw_result, kw_pc>>

scan_vars == <<papers, selected_papers, grouped_stems, idx, pc, error,
               match_result, year_reads, calls, calls_left>>

kw_vars == <<keywords, kw_result, kw_pc>>

----------------------------------------------------------------------------
(* Bounds *)

MaxPapers == 2
MaxGroups == 2
MaxCalls == 2
MaxKwLen == 5

----------------------------------------------------------------------------
(* Values *)

\* Python's None; no str of the model equals it
NoneVal == <<"None">>

YearCutoff == 2018

\* str.lower() on the model's letters
Lower(c) ==
    IF c = "A" THEN "a" ELSE IF c = "B" THEN "b" ELSE IF c = "S" THEN "s" ELSE c

LowerAll(w) == [i \in 1..Len(w) |-> Lower(w[i])]

----------------------------------------------------------------------------
(* Stemmer *)

\* nltk.word_tokenize on blank-separated letters: the maximal runs of
\* non-blank characters, in order.  cur is the word being read.
RECURSIVE TokenizeFrom(_, _, _)
TokenizeFrom(text, i, cur) ==
    IF i > Len(text)
    THEN IF cur = <<>> THEN <<>> ELSE <<cur>>
    ELSE IF text[i] = " "
         THEN (IF cur = <<>> THEN <<>> ELSE <<cur>>) \o TokenizeFrom(text, i + 1, <<>>)
         ELSE TokenizeFrom(text, i + 1, Append(cur, text[i]))

word_tokenize(text) == TokenizeFrom(text, 1, <<>>)

\* PorterStemmer.stem on the model's letters
PorterStem(word) ==
    LET w == LowerAll(word)
        n == Len(w)
    IN  IF n <= 2 THEN w
        ELSE IF w[n] = "s" /\ w[n - 1] = "s" THEN w
        ELSE IF w[n] = "s" THEN SubSeq(w, 1, n - 1)
        ELSE w

stem_text(text) ==
    LET words == word_tokenize(text)
    IN  [i \in 1..Len(words) |-> PorterStem(words[i])]

\* str.split(sep): the pieces between separators, empty pieces kept
RECURSIVE SplitFrom(_, _, _, _)
SplitFrom(s, sep, i, cur) ==
    IF i > Len(s) THEN <<cur>>
    ELSE IF s[i] = sep
         THEN <<cur>> \o SplitFrom(s, sep, i + 1, <<>>)
         ELSE SplitFrom(s, sep, i + 1, Append(cur, s[i]))

Split(s, sep) == SplitFrom(s, sep, 1, <<>>)

\* sep.join(parts)
RECURSIVE Join(_, _)
Join(sep, parts) ==
    IF parts = <<>> THEN <<>>
    ELSE IF Len(parts) = 1 THEN parts[1]
    ELSE parts[1] \o sep \o Join(sep, Tail(parts))

\* FirstStems leaving out the alternatives without a token
RECURSIVE FirstStems_SkipEmpty(_)
FirstStems_SkipEmpty(keyword_list) ==
    IF keyword_list = <<>> THEN [raised |-> FALSE, value |-> <<>>]
    ELSE LET toks == stem_text(Head(keyword_list))
             rest == FirstStems_SkipEmpty(Tail(keyword_list))
         IN  IF toks = <<>> THEN rest
             ELSE [raised |-> FALSE, value |-> <<toks[1]>> \o rest.value]

\* FirstStems taking the last token of an alternative, not the first
RECURSIVE FirstStems_LastToken(_)
FirstStems_LastToken(keyword_list) ==
    IF keyword_list = <<>> THEN [raised |-> FALSE, value |-> <<>>]
    ELSE LET toks == stem_text(Head(keyword_list))
         IN  IF toks = <<>>
             THEN [raised |-> TRUE, value |-> "IndexError"]
             ELSE LET rest == FirstStems_LastToken(Tail(keyword_list))
                  IN  IF rest.raised THEN rest
                      ELSE [raised |-> FALSE,
                            value |-> <<toks[Len(toks)]>> \o rest.value]

\* [self.stem_text(word)[0] for word in keyword_list]: the list, or the
\* IndexError raised by the first alternative without a token
RECURSIVE FirstStems(_)
FirstStems(keyword_list) ==
    IF keyword_list = <<>> THEN [raised |-> FALSE, value |-> <<>>]
    ELSE LET toks == stem_text(Head(keyword_list))
         IN  IF toks = <<>>
             THEN [raised |-> TRUE, value |-> "IndexError"]
             ELSE LET rest == FirstStems(Tail(keyword_list))
                  IN  IF rest.raised THEN rest
                      ELSE [raised |-> FALSE, value |-> <<toks[1]>> \o rest.value]

stem_keywords(kws) ==
    LET keyword_list == Split(kws, "|")
        stemmed_keywords == FirstStems(keyword_list)
    IN  IF stemmed_keywords.raised THEN stemmed_keywords
        ELSE [raised |-> FALSE, value |-> Join(<<"|">>, stemmed_keywords.value)]

----------------------------------------------------------------------------
(* PaperSelector *)

\* one pattern character against one subject character under regex.I
CharMatches(p, c) == p = "." \/ Lower(p) = Lower(c)

MatchesAt(pattern, string, pos) ==
    \A j \in 1..Len(pattern) : CharMatches(pattern[j], string[pos + j])

\* search_regex taking an empty subject for a match
search_regex_EmptySubject(pattern, string) ==
    \/ string = <<>>
    \/ \E pos \in 0..(Len(string) - Len(pattern)) : MatchesAt(pattern, string, pos)

\* regex.search(pattern, string, flags=regex.I) found a match
search_regex(pattern, string) ==
    \E pos \in 0..(Len(string) - Len(pattern)) : MatchesAt(pattern, string, pos)

abstract_stem(paper) == Join(<<" ">>, stem_text(paper.abstract))

title_stem(paper) == Join(<<" ">>, stem_text(paper.title))

\* AnyStem looking at the abstract only
RECURSIVE AnyStem_AbstractOnly(_, _)
AnyStem_AbstractOnly(stems, paper) ==
    IF stems = <<>> THEN FALSE
    ELSE IF search_regex(Head(stems), abstract_stem(paper))
         THEN TRUE
         ELSE AnyStem_AbstractOnly(Tail(stems), paper)

\* any(... for stem in group.split("|")), evaluated left to right
RECURSIVE AnyStem(_, _)
AnyStem(stems, paper) ==
    IF stems = <<>> THEN FALSE
    ELSE IF search_regex(Head(stems), abstract_stem(paper))
            \/ search_regex(Head(stems), title_stem(paper))
         THEN TRUE
         ELSE AnyStem(Tail(stems), paper)

\* all(... for group in grouped_stems), evaluated left to right
RECURSIVE AllGroups(_, _)
AllGroups(groups, paper) ==
    IF groups = <<>> THEN TRUE
    ELSE IF AnyStem(Split(Head(groups), "|"), paper)
         THEN AllGroups(Tail(groups), paper)
         ELSE FALSE

IsDigit(c) == c \in {"0", "1", "2", "3", "4", "5", "6", "7", "8", "9"}

DigitValue(c) ==
    CASE c = "0" -> 0 [] c = "1" -> 1 [] c = "2" -> 2 [] c = "3" -> 3
      [] c = "4" -> 4 [] c = "5" -> 5 [] c = "6" -> 6 [] c = "7" -> 7
      [] c = "8" -> 8 [] c = "9" -> 9

RECURSIVE DigitsValue(_)
DigitsValue(s) ==
    IF s = <<>> THEN 0
    ELSE 10 * DigitsValue(SubSeq(s, 1, Len(s) - 1)) + DigitValue(s[Len(s)])

\* int(x): TypeError for None, ValueError for a str that is not a number
IntOf(x) ==
    IF x = NoneVal THEN [raised |-> TRUE, value |-> "TypeError"]
    ELSE IF x = <<>> \/ \E i \in 1..Len(x) : ~IsDigit(x[i])
         THEN [raised |-> TRUE, value |-> "ValueError"]
         ELSE [raised |-> FALSE, value |-> DigitsValue(x)]

\* YearPasses with the cutoff year itself left out
YearPasses_Strict(year) == year > YearCutoff

\* year >= 2018
YearPasses(year) == year >= YearCutoff

KeySet(d) == {d[i].key : i \in 1..Len(d)}

\* DictSet putting a new key first
DictSet_Prepend(d, key, value) ==
    IF key \in KeySet(d)
    THEN [i \in 1..Len(d) |-> IF d[i].key = key THEN [key |-> key, value |-> value]
                                                ELSE d[i]]
    ELSE <<[key |-> key, value |-> value]>> \o d

\* d[key] = value on an insertion-ordered dict
DictSet(d, key, value) ==
    IF key \in KeySet(d)
    THEN [i \in 1..Len(d) |-> IF d[i].key = key THEN [key |-> key, value |-> value]
                                                ELSE d[i]]
    ELSE Append(d, [key |-> key, value |-> value])

Entry(paper) ==
    [title |-> paper.title, abstract |-> paper.abstract, url |-> paper.url]

----------------------------------------------------------------------------
(* Inputs *)

Titles == { <<"a", "b", "s">>, <<"B", "a", " ", " ", "s">> }

Abstracts == { <<>>, <<"b", "a", "s">> }

Years == { <<"2", "0", "1", "7">>, <<"2", "0", "1", "8">>, NoneVal, <<"n">> }

\* the record the corpus holds under its i-th key
PaperRecords(i) ==
    [id : {i}, title : Titles, abstract : Abstracts, year : Years, url : {<<"u", i>>}]

Corpora(n) ==
    { c \in [1..n -> UNION {PaperRecords(i) : i \in 1..n}] :
        \A i \in 1..n : c[i].id = i }

\* "ss|a." (two alternatives, a wildcard), "BA" (upper case), "" (one empty
\* alternative)
Groups ==
    { <<"s", "s", "|", "a", ".">>,
      <<"B", "A">>,
      <<>> }

GroupSeqs == UNION { [1..n -> Groups] : n \in 0..MaxGroups }

\* the arguments of a caller that passes at most one group per call
CallGroupSeqs == { groups \in GroupSeqs : Len(groups) <= 1 }

KwAlphabet == {"a", "s", "A", " ", "|"}

KwStrings == UNION { [1..n -> KwAlphabet] : n \in 0..MaxKwLen }

----------------------------------------------------------------------------
(* PaperSelector.__init__ and the driver *)

InitSelector ==
    /\ selected_papers = <<>>
    /\ grouped_stems = <<>>
    /\ idx = 0
    /\ pc = "idle"
    /\ error = "none"
    /\ match_result = <<>>
    /\ year_reads = {}
    /\ calls = <<>>

InitKwIdle ==
    /\ keywords = <<>>
    /\ kw_result = NoneVal
    /\ kw_pc = "idle"

\* __main__: one selector, one filter_papers call
Init ==
    /\ papers \in UNION { Corpora(n) : n \in 0..MaxPapers }
    /\ InitSelector
    /\ calls_left = 1
    /\ InitKwIdle

\* a caller that reuses the selector for several calls
InitCalls ==
    /\ papers \in { c \in UNION { Corpora(n) : n \in 0..MaxPapers } :
                      \A i \in 1..Len(c) : c[i].year # <<"n">> }
    /\ InitSelector
    /\ calls_left = MaxCalls
    /\ InitKwIdle

\* filter_papers emptying the result when it starts
filter_papers_Reset(groups) ==
    /\ pc = "idle"
    /\ calls_left > 0
    /\ pc' = "loop"
    /\ idx' = 1
    /\ grouped_stems' = groups
    /\ match_result' = <<>>
    /\ year_reads' = {}
    /\ calls' = Append(calls, groups)
    /\ calls_left' = calls_left - 1
    /\ selected_papers' = <<>>
    /\ UNCHANGED <<papers, error>>

\* entry of filter_papers(grouped_stems): the for loop starts
filter_papers(groups) ==
    /\ pc = "idle"
    /\ calls_left > 0
    /\ pc' = "loop"
    /\ idx' = 1
    /\ grouped_stems' = groups
    /\ match_result' = <<>>
    /\ year_reads' = {}
    /\ calls' = Append(calls, groups)
    /\ calls_left' = calls_left - 1
    /\ UNCHANGED <<papers, selected_papers, error>>

\* EvaluateMatch converting the year before the if condition
EvaluateMatch_YearFirst ==
    /\ pc = "loop"
    /\ idx <= Len(papers)
    /\ LET year == IntOf(papers[idx].year)
           cond == AllGroups(grouped_stems, papers[idx])
       IN  /\ year_reads' = year_reads \cup {idx}
           /\ IF year.raised
              THEN /\ pc' = "error"
                   /\ error' = year.value
                   /\ UNCHANGED <<idx, match_result>>
              ELSE /\ match_result' = Append(match_result, cond)
                   /\ error' = error
                   /\ IF cond
                      THEN pc' = "matched" /\ idx' = idx
                      ELSE pc' = "loop" /\ idx' = idx + 1
    /\ UNCHANGED <<papers, selected_papers, grouped_stems, calls, calls_left>>

\* lines 89-101: next record, its stems, the if condition
EvaluateMatch ==
    /\ pc = "loop"
    /\ idx <= Len(papers)
    /\ LET cond == AllGroups(grouped_stems, papers[idx])
       IN  /\ match_result' = Append(match_result, cond)
           /\ IF cond
              THEN pc' = "matched" /\ idx' = idx
              ELSE pc' = "loop" /\ idx' = idx + 1
    /\ UNCHANGED <<papers, selected_papers, grouped_stems, error, year_reads,
                   calls, calls_left>>

\* lines 102-110: the year, the cutoff, the insertion
CheckYear ==
    /\ pc = "matched"
    /\ LET paper == papers[idx]
           year == IntOf(paper.year)
       IN  /\ year_reads' = year_reads \cup {idx}
           /\ IF year.raised
              THEN /\ pc' = "error"
                   /\ error' = year.value
                   /\ UNCHANGED <<selected_papers, idx>>
              ELSE /\ pc' = "loop"
                   /\ idx' = idx + 1
                   /\ error' = error
                   /\ selected_papers' =
                        IF YearPasses(year.value)
                        THEN DictSet(selected_papers, paper.id, Entry(paper))
                        ELSE selected_papers
    /\ UNCHANGED <<papers, grouped_stems, match_result, calls, calls_left>>

\* the for loop is exhausted: filter_papers returns
Return ==
    /\ pc = "loop"
    /\ idx > Len(papers)
    /\ pc' = "idle"
    /\ UNCHANGED <<papers, selected_papers, grouped_stems, idx, error,
                   match_result, year_reads, calls, calls_left>>

Next ==
    \/ \E groups \in GroupSeqs : filter_papers(groups) /\ UNCHANGED kw_vars
    \/ EvaluateMatch /\ UNCHANGED kw_vars
    \/ CheckYear /\ UNCHANGED kw_vars
    \/ Return /\ UNCHANGED kw_vars

Spec == Init /\ [][Next]_vars

NextCalls ==
    \/ \E groups \in CallGroupSeqs : filter_papers(groups) /\ UNCHANGED kw_vars
    \/ EvaluateMatch /\ UNCHANGED kw_vars
    \/ CheckYear /\ UNCHANGED kw_vars
    \/ Return /\ UNCHANGED kw_vars

SpecCalls == InitCalls /\ [][NextCalls]_vars

----------------------------------------------------------------------------
(* Stemmer.stem_keywords on its own *)

InitKw ==
    /\ papers = <<>>
    /\ InitSelector
    /\ calls_left = 0
    /\ keywords \in KwStrings
    /\ kw_result = NoneVal
    /\ kw_pc = "start"

StemKeywords ==
    /\ kw_pc = "start"
    /\ LET r == stem_keywords(keywords)
       IN  IF r.raised
           THEN kw_pc' = "raised" /\ kw_result' = NoneVal
           ELSE kw_pc' = "returned" /\ kw_result' = r.value
    /\ UNCHANGED <<keywords>>
    /\ UNCHANGED scan_vars

NextKw == StemKeywords

SpecKw == InitKw /\ [][NextKw]_vars

----------------------------------------------------------------------------
(* Properties *)

Alternatives(group) == Split(group, "|")

\* the stem occurs in the stemmed title or in the stemmed abstract
StemFound(stem, paper) ==
    search_regex(stem, title_stem(paper)) \/ search_regex(stem, abstract_stem(paper))

GroupInTitle(group, paper) ==
    \E k \in 1..Len(Alternatives(group)) :
        search_regex(Alternatives(group)[k], title_stem(paper))

GroupInAbstract(group, paper) ==
    \E k \in 1..Len(Alternatives(group)) :
        search_regex(Alternatives(group)[k], abstract_stem(paper))

GroupRepresented(group, paper) ==
    \E k \in 1..Len(Alternatives(group)) : StemFound(Alternatives(group)[k], paper)

EveryGroupRepresented(groups, paper) ==
    \A g \in 1..Len(groups) : GroupRepresented(groups[g], paper)

YearConvertible(paper) == ~IntOf(paper.year).raised

YearAtLeast(paper, n) == YearConvertible(paper) /\ IntOf(paper.year).value >= n

Qualifies(paper, groups) ==
    EveryGroupRepresented(groups, paper) /\ YearAtLeast(paper, 2018)

Selected(i) == papers[i].id \in KeySet(selected_papers)

FirstCallReturned == pc = "idle" /\ Len(calls) = 1

\* C1: when the first filter_papers call on a new selector returns, a record's
\* identifier is a key of selected_papers exactly if the record has every group
\* represented and its year is at least 2018.
C1_SelectedIffMatchAndYear ==
    FirstCallReturned =>
        \A i \in 1..Len(papers) : Selected(i) <=> Qualifies(papers[i], grouped_stems)

\* a returned scan that kept a matching record of 2018 and dropped one of 2017
C1_Witness ==
    /\ FirstCallReturned
    /\ \E i, j \in 1..Len(papers) :
        /\ EveryGroupRepresented(grouped_stems, papers[i])
        /\ papers[i].year = <<"2", "0", "1", "8">>
        /\ Selected(i)
        /\ EveryGroupRepresented(grouped_stems, papers[j])
        /\ papers[j].year = <<"2", "0", "1", "7">>
        /\ ~Selected(j)

\* C2: the if condition of filter_papers is true for a record exactly if every
\* group has an alternative found in the stemmed title or the stemmed abstract.
C2_MatchIffEveryGroup ==
    \A i \in 1..Len(match_result) :
        match_result[i] = EveryGroupRepresented(grouped_stems, papers[i])

\* two groups; record 1 has the first only in its title and the second only in
\* its abstract and matches; record 2 has all groups but one and does not
C2_Witness ==
    /\ Len(grouped_stems) = 2
    /\ Len(match_result) = 2
    /\ GroupInTitle(grouped_stems[1], papers[1])
    /\ ~GroupInAbstract(grouped_stems[1], papers[1])
    /\ GroupInAbstract(grouped_stems[2], papers[1])
    /\ ~GroupInTitle(grouped_stems[2], papers[1])
    /\ match_result[1]
    /\ GroupRepresented(grouped_stems[1], papers[2])
    /\ ~GroupRepresented(grouped_stems[2], papers[2])
    /\ ~match_result[2]

\* C3: a record whose year is missing or not a number never aborts the run, and
\* every record that qualifies is selected when the scan is over.
C3_BadYearIsSkipped ==
    /\ pc # "error"
    /\ FirstCallReturned =>
        \A i \in 1..Len(papers) : Qualifies(papers[i], grouped_stems) => Selected(i)

HasEmptyAlternative(kws) ==
    \E k \in 1..Len(Alternatives(kws)) : stem_text(Alternatives(kws)[k]) = <<>>

KwDone == kw_pc \in {"returned", "raised"}

\* C4: stem_keywords raises and returns nothing whenever some alternative of its
\* input has no token.
C4_EmptyAlternativeRaises ==
    (KwDone /\ HasEmptyAlternative(keywords)) =>
        (kw_pc = "raised" /\ kw_result = NoneVal)

\* raised on an input whose first alternative has a stem and whose second is blank
C4_Witness ==
    /\ kw_pc = "raised"
    /\ Len(Alternatives(keywords)) = 2
    /\ stem_text(Alternatives(keywords)[1]) # <<>>
    /\ Alternatives(keywords)[2] = <<" ">>

\* C5: when every alternative has a token, stem_keywords returns a string whose
\* split on "|" has as many pieces as the input's, the i-th being the first
\* stemmed token of the i-th alternative.
C5_FirstStemPerAlternative ==
    (KwDone /\ ~HasEmptyAlternative(keywords)) =>
        /\ kw_pc = "returned"
        /\ Len(Alternatives(kw_result)) = Len(Alternatives(keywords))
        /\ \A k \in 1..Len(Alternatives(keywords)) :
            Alternatives(kw_result)[k] = stem_text(Alternatives(keywords)[k])[1]

\* returned for two alternatives, the first of two words
C5_Witness ==
    /\ kw_pc = "returned"
    /\ Len(Alternatives(keywords)) = 2
    /\ Len(stem_text(Alternatives(keywords)[1])) = 2
    /\ stem_text(Alternatives(keywords)[1])[1] # stem_text(Alternatives(keywords)[1])[2]

IsPrefix(s, t) == Len(s) <= Len(t) /\ SubSeq(t, 1, Len(s)) = s

\* position in the corpus of the record with this identifier
PositionOf(key) == CHOOSE k \in 1..Len(papers) : papers[k].id = key

C6_Inv ==
    /\ \A i, j \in 1..Len(selected_papers) :
        i # j => selected_papers[i].key # selected_papers[j].key
    /\ \A i \in 1..Len(selected_papers) :
        \E k \in 1..Len(papers) : k < idx /\ papers[k].id = selected_papers[i].key
    /\ \A i, j \in 1..Len(selected_papers) :
        i < j => PositionOf(selected_papers[i].key) < PositionOf(selected_papers[j].key)

C6_Step ==
    /\ IsPrefix(selected_papers, selected_papers')
    /\ selected_papers' # selected_papers =>
        /\ selected_papers' =
              Append(selected_papers,
                     [key |-> papers[idx].id, value |-> Entry(papers[idx])])
        /\ idx' = idx + 1

\* C6: during a scan selected_papers only grows, by one entry for the record
\* being visited, appended after the entries already there; keys are unique,
\* every key is the identifier of a record already visited, and the keys are
\* in corpus order.
C6_GrowsInCorpusOrder == [] C6_Inv /\ [][C6_Step]_vars

\* two entries, the scan still running
C6_Witness ==
    /\ Len(selected_papers) = 2
    /\ pc = "loop"

\* the groups have an alternative in the stemmed title
TitleDecides(groups, paper) ==
    \A g \in 1..Len(groups) : GroupInTitle(groups[g], paper)

C8_YearReadAfterMatch ==
    \A i \in year_reads : i <= Len(match_result) /\ match_result[i]

\* the scan returned; it read one year and passed over a record that did not
\* match and whose year cannot be converted
C8_Witness ==
    /\ FirstCallReturned
    /\ year_reads # {}
    /\ \E i \in 1..Len(papers) :
        /\ ~match_result[i]
        /\ ~YearConvertible(papers[i])
        /\ i \notin year_reads

\* the scan that converts and checks the year before it evaluates the match
RECURSIVE YearFirstScan(_, _, _, _)
YearFirstScan(corpus, groups, i, sel) ==
    IF i > Len(corpus)
    THEN [pc |-> "idle", error |-> "none", at |-> i, selected |-> sel]
    ELSE LET year == IntOf(corpus[i].year)
         IN  IF year.raised
             THEN [pc |-> "error", error |-> year.value, at |-> i, selected |-> sel]
             ELSE YearFirstScan(corpus, groups, i + 1,
                    IF YearPasses(year.value) /\ AllGroups(groups, corpus[i])
                    THEN DictSet(sel, corpus[i].id, Entry(corpus[i]))
                    ELSE sel)

\* C9: the first call ends as the year-first scan does: the same
\* selected_papers, or the same error at the same record.
C9_OrderHasNoEffect ==
    (pc \in {"idle", "error"} /\ Len(calls) = 1) =>
        [pc |-> pc, error |-> error, at |-> idx, selected |-> selected_papers]
            = YearFirstScan(papers, grouped_stems, 1, <<>>)

\* identifiers of the records a call with these groups selects
SelectedBy(groups) ==
    { papers[i].id : i \in { k \in 1..Len(papers) : Qualifies(papers[k], groups) } }

C10_Inv ==
    pc = "idle" =>
        KeySet(selected_papers) = UNION { SelectedBy(calls[c]) : c \in 1..Len(calls) }

C10_Step ==
    \A i \in 1..Len(selected_papers) :
        i <= Len(selected_papers') /\ selected_papers'[i] = selected_papers[i]

\* C10: no call empties selected_papers: no step drops or changes an entry, and
\* between calls the keys are those of the records selected by any call made.
C10_CallsAccumulate == [] C10_Inv /\ [][C10_Step]_vars

\* after two calls an entry is there whose record the second call's groups
\* do not match
C10_Witness ==
    /\ pc = "idle"
    /\ Len(calls) = 2
    /\ \E i \in 1..Len(papers) :
        Selected(i) /\ ~EveryGroupRepresented(calls[2], papers[i])

====
